---- MODULE Spec2Model ----
(***************************************************************************)
(* A model of the Grounded AR detection backend                            *)
(* (BACKEND_FASTAPI_EXAMPLE.py) and of the audio generator script          *)
(* (generate_audio.py).                                                    *)
(*                                                                         *)
(* Conventions.                                                            *)
(*  - A Python str that the code takes apart (the image payload) is a      *)
(*    sequence of one-character strings; an f-string is the sequence of    *)
(*    its pieces, so <<"error: ", t>> is f"error: {t}".                    *)
(*  - Optional[X] is a sequence of length 0 (None) or 1 (the value).       *)
(*  - Floats that the code only stores and copies (positions and           *)
(*    confidences) are integers in hundredths: 0.95 is 95.                 *)
(*  - time.time() is the variable clock, read where the code reads it.     *)
(*  - process_image is an `async def` without any await, so the event      *)
(*    loop runs a handler from its first line to its return without        *)
(*    switching to another request: a handler is one action.               *)
(***************************************************************************)
EXTENDS Integers, Sequences, FiniteSets, TLC

VARIABLES
    net,            \* global net: the model handle (line 73)
    classes_from,   \* global classes (line 74): None, or the table_writes the list was built over
    table_writes,   \* the assignments made to the dict COCO_CLASSES since the module was loaded
    started,        \* the startup event has run (lines 219-224)
    clock,          \* what time.time() returns now
    handled,        \* number of POST /upload_image requests handled so far
    reply,          \* the last response a handler produced
    OPENAI_API_KEY, \* generate_audio.py: the key read at import (line 13)
    pc,             \* generate_audio.py: position in main
    idx,            \* generate_audio.py: entries of CRITICAL_PHRASES done
    success_count,  \* generate_audio.py: main's counter (line 92)
    posted,         \* generate_audio.py: filenames of the TTS requests issued, in order
    files           \* generate_audio.py: files written under Grounded/AudioFiles

vars == <<net, classes_from, table_writes, started, clock, handled, reply,
          OPENAI_API_KEY, pc, idx, success_count, posted, files>>

serviceVars == <<net, classes_from, table_writes, started, clock, handled, reply>>
audioVars == <<OPENAI_API_KEY, pc, idx, success_count, posted, files>>

----------------------------------------------------------------------------
(* Bounds of the model *)

\* time.time() ranges over 0..MaxClock
MaxClock == 1
\* at most MaxRequests POST /upload_image requests per run
MaxRequests == 2

Times == 0..MaxClock

None == <<>>
Some(x) == <<x>>

Range(s) == {s[i] : i \in 1..Len(s)}

----------------------------------------------------------------------------
(* The label table *)

COCO_NAMES ==
    <<"person", "bicycle", "car", "motorcycle", "airplane", "bus",
      "train", "truck", "boat", "traffic light", "fire hydrant",
      "stop sign", "parking meter", "bench", "bird", "cat",
      "dog", "horse", "sheep", "cow", "elephant", "bear",
      "zebra", "giraffe", "backpack", "umbrella", "handbag",
      "tie", "suitcase", "frisbee", "skis", "snowboard",
      "sports ball", "kite", "baseball bat", "baseball glove",
      "skateboard", "surfboard", "tennis racket", "bottle",
      "wine glass", "cup", "fork", "knife", "spoon", "bowl",
      "banana", "apple", "sandwich", "orange", "broccoli",
      "carrot", "hot dog", "pizza", "donut", "cake", "chair",
      "couch", "potted plant", "bed", "dining table", "toilet",
      "tv", "laptop", "mouse", "remote", "keyboard", "cell phone",
      "microwave", "oven", "toaster", "sink", "refrigerator",
      "book", "clock", "vase", "scissors", "teddy bear",
      "hair drier", "toothbrush">>

\* The dict literal of lines 34-51: keys 0..79.
CocoTable == [k \in 0..(Len(COCO_NAMES) - 1) |-> COCO_NAMES[k + 1]]

\* The dict after the assignments `writes` (a function from keys to names).
TableAfter(writes) ==
    [k \in DOMAIN CocoTable \cup DOMAIN writes |->
        IF k \in DOMAIN writes THEN writes[k] ELSE CocoTable[k]]

\* The module-level dict COCO_CLASSES as it is now.
COCO_CLASSES == TableAfter(table_writes)

\* list(table.values()) (line 90), for a table with keys 0..n-1
ClassList(table) == [i \in 1..Cardinality(DOMAIN table) |-> table[i - 1]]

\* The global `classes` as it is now.
classes ==
    IF classes_from = None THEN None
    ELSE Some(ClassList(TableAfter(classes_from[1])))

----------------------------------------------------------------------------
(* Image strings.  The alphabet keeps one character of each kind the      *)
(* decoder tells apart: two base64 digits ("/" is 63, "A" is 0), the pad   *)
(* "=", the comma, and "!" for any character outside the base64 alphabet.  *)

Digits == {"/", "A"}

DigitValue(c) == IF c = "/" THEN 63 ELSE 0

\* str.split(','): the segments between the commas, in order.
RECURSIVE split(_)
split(s) ==
    IF \A i \in 1..Len(s) : s[i] # ","
    THEN <<s>>
    ELSE LET i == CHOOSE j \in 1..Len(s) :
                     s[j] = "," /\ \A k \in 1..(j - 1) : s[k] # ","
         IN <<SubSeq(s, 1, i - 1)>> \o split(SubSeq(s, i + 1, Len(s)))

\* binascii.a2b_base64 in its default, non-strict mode, as base64.b64decode
\* calls it (line 202): characters outside the alphabet are skipped, a pad
\* that completes a quad ends the input, and leftover digits are an error.
RECURSIVE a2b_base64(_, _, _, _, _, _)
a2b_base64(s, i, quad_pos, leftchar, pads, out) ==
    IF i > Len(s)
    THEN IF quad_pos = 0
         THEN [ok |-> TRUE, bytes |-> out, error |-> ""]
         ELSE [ok |-> FALSE, bytes |-> <<>>,
               error |-> IF quad_pos = 1
                         THEN "Invalid base64-encoded string"
                         ELSE "Incorrect padding"]
    ELSE LET ch == s[i] IN
         IF ch = "="
         THEN IF quad_pos >= 2 /\ quad_pos + pads + 1 >= 4
              THEN [ok |-> TRUE, bytes |-> out, error |-> ""]
              ELSE a2b_base64(s, i + 1, quad_pos, leftchar,
                              IF quad_pos >= 2 THEN pads + 1 ELSE pads, out)
         ELSE IF ch \notin Digits
         THEN a2b_base64(s, i + 1, quad_pos, leftchar, pads, out)
         ELSE LET v == DigitValue(ch) IN
              CASE quad_pos = 0 ->
                     a2b_base64(s, i + 1, 1, v, 0, out)
                [] quad_pos = 1 ->
                     a2b_base64(s, i + 1, 2, v % 16, 0,
                                Append(out, leftchar * 4 + (v \div 16)))
                [] quad_pos = 2 ->
                     a2b_base64(s, i + 1, 3, v % 4, 0,
                                Append(out, leftchar * 16 + (v \div 4)))
                [] OTHER ->
                     a2b_base64(s, i + 1, 0, 0, 0,
                                Append(out, leftchar * 64 + v))

b64decode(s) == a2b_base64(s, 1, 0, 0, 0, <<>>)

\* cv2.imdecode (line 208) on a toy container: a magic byte 255, then the
\* width and the height, each at least 1.  Anything else, the empty buffer
\* and a container cut short included, is no image: None.
imdecode(bytes) ==
    IF Len(bytes) >= 3 /\ bytes[1] = 255 /\ bytes[2] >= 1 /\ bytes[3] >= 1
    THEN Some([width |-> bytes[2], height |-> bytes[3]])
    ELSE None

\* What decode_base64_image hands to base64.b64decode (lines 198-199).
Payload(image_base64) ==
    IF "," \in Range(image_base64) THEN split(image_base64)[2] ELSE image_base64

\* decode_base64_image: the image, or HTTPException(400).  b64_input records
\* the text that was base64-decoded.
decode_base64_image(image_base64) ==
    LET payload == Payload(image_base64)
        image_data == b64decode(payload)
        image == IF image_data.ok THEN imdecode(image_data.bytes) ELSE None
        e == IF ~image_data.ok THEN image_data.error ELSE "Failed to decode image"
    IN IF image_data.ok /\ image # None
       THEN [raised |-> FALSE, image |-> image[1], b64_input |-> payload]
       ELSE [raised |-> TRUE, b64_input |-> payload,
             exc |-> [type |-> "HTTPException", status_code |-> 400,
                      detail |-> <<"Invalid image data: ", e>>]]

----------------------------------------------------------------------------
(* Requests *)

\* "////" : base64 of the bytes 255 255 255, an image
ImgPlain == <<"/", "/", "/", "/">>
\* "!,//A/" : a data-URL prefix, a comma, base64 of 255 240 63, an image
ImgDataUrl == <<"!", ",", "/", "/", "A", "/">>
\* "!A!" : not base64 (one digit among other characters), like "not-base64!!"
ImgNotBase64 == <<"!", "A", "!">>
\* "" : the empty string
ImgEmpty == <<>>
\* "///=" : base64 of 255 255, an image cut short
ImgTruncated == <<"/", "/", "/", "=">>
\* "!////" : a character outside the alphabet, then base64 of an image
ImgStray == <<"!", "/", "/", "/", "/">>
\* "!,A,////" : two commas, base64 of an image after the last one
ImgTwoCommas == <<"!", ",", "A", ",", "/", "/", "/", "/">>

Images == {ImgPlain, ImgDataUrl, ImgNotBase64, ImgEmpty, ImgTruncated,
           ImgStray, ImgTwoCommas}

FrameIds == {7, 42}

\* DetectionRequest (lines 54-58)
Requests ==
    [image : Images, timestamp : {0}, frame_id : FrameIds,
     detection_type : {"coco"}]

----------------------------------------------------------------------------
(* Detection *)

\* The candidate list of lines 160-185; class_id_type is the Python type of
\* the class_id value (an int literal here).
simulated_detections ==
    <<[class_id |-> 56, box_x |-> 30, box_y |-> 60, confidence |-> 95,
       class_id_type |-> "int"],
      [class_id |-> 58, box_x |-> 70, box_y |-> 30, confidence |-> 87,
       class_id_type |-> "int"],
      [class_id |-> 62, box_x |-> 20, box_y |-> 20, confidence |-> 92,
       class_id_type |-> "int"],
      [class_id |-> 39, box_x |-> 80, box_y |-> 70, confidence |-> 78,
       class_id_type |-> "int"]>>

\* random.shuffle(list): every order of the list.
shuffle(list) ==
    {[i \in 1..Len(list) |-> list[f[i]]] : f \in Permutations(1..Len(list))}

\* random.randint(a, b)
randint(a, b) == a..b

\* A slip in the slice bound: randint(0, 3).
simulate_detections_from_zero(image) ==
    {SubSeq(l, 1, k) : l \in shuffle(simulated_detections), k \in randint(0, 3)}

\* simulate_detections: every value the call can return.
simulate_detections(image) ==
    {SubSeq(l, 1, k) : l \in shuffle(simulated_detections), k \in randint(1, 3)}

\* What net.forward() (line 118) can give: rows of box centre (hundredths)
\* and class scores (hundredths).
ForwardRows ==
    {[cx |-> 50, cy |-> 25, scores |-> <<10, 90>>],
     [cx |-> 10, cy |-> 10, scores |-> <<40, 30>>],
     [cx |-> 99, cy |-> 99, scores |-> <<>>]}

ForwardOutputs ==
    {<<>>} \cup {<<r>> : r \in ForwardRows}
           \cup {<<r1, r2>> : r1 \in ForwardRows, r2 \in ForwardRows}

\* np.argmax(scores): the first index (from 0) of the largest score.
argmax(scores) ==
    (CHOOSE i \in 1..Len(scores) :
        /\ \A j \in 1..Len(scores) : scores[j] <= scores[i]
        /\ \A j \in 1..(i - 1) : scores[j] < scores[i]) - 1

\* Lines 121-146: the rows whose top score is above 0.5, converted.
RECURSIVE threshold_rows(_, _)
threshold_rows(rows, image) ==
    IF rows = <<>> THEN <<>>
    ELSE LET detection == Head(rows)
             class_id == argmax(detection.scores)
             confidence == detection.scores[class_id + 1]
             center_x == (detection.cx * image.width) \div 100
             center_y == (detection.cy * image.height) \div 100
             rest == threshold_rows(Tail(rows), image)
         IN IF confidence > 50
            THEN <<[class_id |-> class_id,
                    box_x |-> (center_x * 100) \div image.width,
                    box_y |-> (center_y * 100) \div image.height,
                    confidence |-> confidence,
                    class_id_type |-> "numpy.int64"]>> \o rest
            ELSE rest

\* The try block of lines 107-146: an exception from the network call, or
\* from np.argmax on a row without scores, or the detections.
inference(image) ==
    {[raised |-> TRUE, detections |-> <<>>]}
    \cup {IF \E i \in 1..Len(rows) : rows[i].scores = <<>>
          THEN [raised |-> TRUE, detections |-> <<>>]
          ELSE [raised |-> FALSE, detections |-> threshold_rows(rows, image)]
          : rows \in ForwardOutputs}

\* A detect_objects_opencv without its except clause.
detect_objects_opencv_propagating(image) ==
    IF net = None
    THEN {[raised |-> FALSE, detections |-> d, strategy |-> "simulated",
           inference_error |-> FALSE] : d \in simulate_detections(image)}
    ELSE {[raised |-> r.raised, detections |-> r.detections,
           strategy |-> "model", inference_error |-> r.raised]
          : r \in inference(image)}

\* detect_objects_opencv: every outcome of the call.  raised: an exception
\* leaves the function; inference_error: one was raised inside the try.
detect_objects_opencv(image) ==
    IF net = None
    THEN {[raised |-> FALSE, detections |-> d, strategy |-> "simulated",
           inference_error |-> FALSE] : d \in simulate_detections(image)}
    ELSE {[raised |-> FALSE,
           detections |-> IF r.raised THEN <<>> ELSE r.detections,
           strategy |-> "model", inference_error |-> r.raised]
          : r \in inference(image)}

\* Detection(class_id=..., ...) (lines 60-64, 269-274).
Detection(det) ==
    [class_id |-> det.class_id, box_x |-> det.box_x, box_y |-> det.box_y,
     confidence |-> det.confidence]

\* The loop of lines 267-274: the Detection objects; or, when a class_id is
\* a numpy integer, also the validation error of a validator that does not
\* take one for an int.
convert(detections) ==
    {[raised |-> FALSE,
      detection_objects |-> [i \in 1..Len(detections) |-> Detection(detections[i])]]}
    \cup IF \E i \in 1..Len(detections) :
               detections[i].class_id_type = "numpy.int64"
         THEN {[raised |-> TRUE, detection_objects |-> <<>>]}
         ELSE {}

----------------------------------------------------------------------------
(* Responses *)

\* A success response with the request's frame_id dropped (left at 0).
SuccessResponse_no_echo(request, detection_objects, start_time, now) ==
    [detections |-> Some(detection_objects),
     processing_time |-> now - start_time,
     frame_id |-> 0,
     status |-> <<"success">>]

\* Lines 276-285: the DetectionResponse of the success path.
SuccessResponse(request, detection_objects, start_time, now) ==
    [detections |-> Some(detection_objects),
     processing_time |-> now - start_time,
     frame_id |-> request.frame_id,
     status |-> <<"success">>]

\* Lines 289-298: the DetectionResponse of the `except Exception` clause.
ErrorResponse(request, e, start_time, now) ==
    [detections |-> None,
     processing_time |-> now - start_time,
     frame_id |-> request.frame_id,
     status |-> <<"error: ", e>>]

\* http_exception_handler (lines 319-325)
http_exception_handler(exc, now) ==
    [error |-> exc.detail, status_code |-> exc.status_code, timestamp |-> now]

\* general_exception_handler (lines 327-334)
general_exception_handler(exc, now) ==
    [error |-> <<"Internal server error">>, status_code |-> 500,
     timestamp |-> now]

\* What leaves the handler when an exception that is not an HTTPException is
\* raised after decoding, were it not caught: the 500 envelope.
Recovered_uncaught(request, decoded, detected, e, start_time, now) ==
    [kind |-> "error_envelope", handler |-> "general_exception_handler",
     request |-> request, b64_input |-> decoded.b64_input,
     body |-> general_exception_handler(e, now)]

\* The `except Exception` clause of process_image (lines 289-298) as the
\* endpoint's result: a 200 with the DetectionResponse.
Recovered(request, decoded, detected, e, start_time, now) ==
    [kind |-> "DetectionResponse", status_code |-> 200,
     request |-> request, b64_input |-> decoded.b64_input,
     strategy |-> detected.strategy,
     inference_error |-> detected.inference_error,
     exception |-> Some(e),
     start_time |-> start_time, now |-> now,
     body |-> ErrorResponse(request, e, start_time, now)]

\* Every result of POST /upload_image for `request` when the handler reads
\* start_time at line 251 and `now` at its later reading of the clock.
Responses(request, start_time, now) ==
    LET decoded == decode_base64_image(request.image)
    IN IF decoded.raised
       THEN \* lines 287-288: the HTTPException goes to its handler
            {[kind |-> "error_envelope", handler |-> "http_exception_handler",
              request |-> request, b64_input |-> decoded.b64_input,
              body |-> http_exception_handler(decoded.exc, now)]}
       ELSE UNION {
              IF detected.raised
              THEN {Recovered(request, decoded, detected, "inference failed",
                              start_time, now)}
              ELSE {IF converted.raised
                    THEN Recovered(request, decoded, detected,
                                   "validation error for Detection",
                                   start_time, now)
                    ELSE [kind |-> "DetectionResponse", status_code |-> 200,
                          request |-> request, b64_input |-> decoded.b64_input,
                          strategy |-> detected.strategy,
                          inference_error |-> detected.inference_error,
                          exception |-> None,
                          start_time |-> start_time, now |-> now,
                          body |-> SuccessResponse(request,
                                      converted.detection_objects,
                                      start_time, now)]
                    : converted \in convert(detected.detections)}
              : detected \in detect_objects_opencv(decoded.image)}

----------------------------------------------------------------------------
(* The service: startup, the endpoints, the clock *)

\* initialize_model with Option 1 (line 83) taken: the handle is assigned.
initialize_model_loading ==
    /\ net' = Some("dnn")
    /\ classes_from' = Some(table_writes)

\* initialize_model (lines 76-94): only `classes` is assigned.
initialize_model ==
    /\ net' = net
    /\ classes_from' = Some(table_writes)

\* startup_event (lines 219-224)
startup_event ==
    /\ ~started
    /\ started' = TRUE
    /\ initialize_model
    /\ UNCHANGED <<table_writes, clock, handled, reply>>
    /\ UNCHANGED audioVars

\* GET / (lines 226-233)
root ==
    /\ started
    /\ reply' = [kind |-> "root",
                 body |-> [message |-> "Grounded AR Detection API",
                           status |-> "running", version |-> "1.0.0"]]
    /\ UNCHANGED <<net, classes_from, table_writes, started, clock, handled>>
    /\ UNCHANGED audioVars

\* GET /health (lines 235-243)
health_check ==
    /\ started
    /\ reply' = [kind |-> "health",
                 body |-> [status |-> "healthy",
                           model_loaded |-> (net # None),
                           coco_classes |-> Cardinality(DOMAIN COCO_CLASSES),
                           timestamp |-> clock]]
    /\ UNCHANGED <<net, classes_from, table_writes, started, clock, handled>>
    /\ UNCHANGED audioVars

\* A handler that loads the model on first use.
process_image_lazy_load(request) ==
    /\ started
    /\ handled < MaxRequests
    /\ handled' = handled + 1
    /\ \E now \in Times :
          /\ clock' = now
          /\ reply' \in Responses(request, clock, now)
    /\ net' = Some("dnn")
    /\ UNCHANGED <<classes_from, table_writes, started>>
    /\ UNCHANGED audioVars

\* POST /upload_image (lines 245-298).  start_time is the clock as the
\* handler starts; its later reading is any time the wall clock can show.
process_image(request) ==
    /\ started
    /\ handled < MaxRequests
    /\ handled' = handled + 1
    /\ \E now \in Times :
          /\ clock' = now
          /\ reply' \in Responses(request, clock, now)
    /\ UNCHANGED <<net, classes_from, table_writes, started>>
    /\ UNCHANGED audioVars

\* GET /classes (lines 300-306)
get_coco_classes ==
    /\ started
    /\ reply' = [kind |-> "classes",
                 body |-> [classes |-> COCO_CLASSES,
                           total_classes |-> Cardinality(DOMAIN COCO_CLASSES)]]
    /\ UNCHANGED <<net, classes_from, table_writes, started, clock, handled>>
    /\ UNCHANGED audioVars

\* GET /stats (lines 308-316)
get_stats ==
    /\ started
    /\ reply' = [kind |-> "stats",
                 body |-> [uptime |-> clock,
                           model_loaded |-> (net # None),
                           supported_classes |-> Cardinality(DOMAIN COCO_CLASSES),
                           api_version |-> "1.0.0"]]
    /\ UNCHANGED <<net, classes_from, table_writes, started, clock, handled>>
    /\ UNCHANGED audioVars

\* The wall clock moves on.
ClockAdvance ==
    /\ clock < MaxClock
    /\ clock' = clock + 1
    /\ UNCHANGED <<net, classes_from, table_writes, started, handled, reply>>
    /\ UNCHANGED audioVars

\* The wall clock is set back (time.time() is the system's wall clock, which
\* an administrator or a time-synchronisation step can move backwards).
ClockSetBack ==
    /\ \E t \in Times : t < clock /\ clock' = t
    /\ UNCHANGED <<net, classes_from, table_writes, started, handled, reply>>
    /\ UNCHANGED audioVars

NoReply == [kind |-> "none"]

AudioIdle ==
    /\ OPENAI_API_KEY = "YOUR_OPENAI_API_KEY_HERE"
    /\ pc = "idle"
    /\ idx = 0
    /\ success_count = 0
    /\ posted = <<>>
    /\ files = {}

\* The module as imported (lines 34-51, 73-74), before startup.
Init ==
    /\ net = None
    /\ classes_from = None
    /\ table_writes = <<>>
    /\ started = FALSE
    /\ clock = 0
    /\ handled = 0
    /\ reply = NoReply
    /\ AudioIdle

Next ==
    \/ startup_event
    \/ root
    \/ health_check
    \/ \E request \in Requests : process_image(request)
    \/ get_coco_classes
    \/ get_stats
    \/ ClockAdvance
    \/ ClockSetBack

Spec == Init /\ [][Next]_vars

\* The service with a detector wired in or not: detect_objects_opencv is
\* checked for both values of its global input `net`.
InitWired ==
    /\ net \in {None, Some("dnn")}
    /\ classes_from = None
    /\ table_writes = <<>>
    /\ started = FALSE
    /\ clock = 0
    /\ handled = 0
    /\ reply = NoReply
    /\ AudioIdle

SpecWired == InitWired /\ [][Next]_vars

----------------------------------------------------------------------------
(* generate_audio.py *)

\* CRITICAL_PHRASES (lines 17-21), in the dict's order; the texts are cut.
CRITICAL_PHRASES ==
    <<[filename |-> "intro_calm.mp3", text |-> "Hello. I am here for you..."],
      [filename |-> "end_calm.mp3", text |-> "You're doing great..."],
      [filename |-> "fallback_calm.mp3", text |-> "Take a deep breath..."]>>

Placeholder == "YOUR_OPENAI_API_KEY_HERE"

\* os.getenv("OPENAI_API_KEY", placeholder) (line 13)
Keys == {Placeholder, "sk-key"}

\* What one requests.post and the saving of its answer can come to:
\* the call raises; a status other than 200; status 200 and mkdir or open
\* raises (no file); 200 and write raises (a file, incomplete); 200 and the
\* file is written.
PostOutcomes ==
    {[status |-> 0, raised |-> TRUE, saved |-> "no"],
     [status |-> 401, raised |-> FALSE, saved |-> "no"],
     [status |-> 500, raised |-> FALSE, saved |-> "no"],
     [status |-> 200, raised |-> FALSE, saved |-> "no"],
     [status |-> 200, raised |-> FALSE, saved |-> "partial"],
     [status |-> 200, raised |-> FALSE, saved |-> "complete"]}

\* main up to the key check (lines 76-93)
main ==
    /\ pc = "main"
    /\ IF OPENAI_API_KEY = Placeholder
       THEN pc' = "returned"
       ELSE pc' = "loop"
    /\ success_count' = 0
    /\ idx' = 0
    /\ UNCHANGED <<OPENAI_API_KEY, posted, files>>
    /\ UNCHANGED serviceVars

\* A generate_audio_file that posts once more when the status is not 200.
generate_audio_file_retrying(entry) ==
    /\ pc = "loop"
    /\ idx < Len(CRITICAL_PHRASES)
    /\ entry = CRITICAL_PHRASES[idx + 1]
    /\ \E o \in PostOutcomes :
          LET call == [filename |-> entry.filename, input |-> entry.text,
                       voice |-> "nova", status |-> o.status,
                       raised |-> o.raised]
              ok == o.status = 200 /\ o.saved = "complete"
          IN /\ posted' = IF o.raised \/ o.status = 200
                          THEN Append(posted, call)
                          ELSE Append(Append(posted, call), call)
             /\ files' = IF o.saved = "no" THEN files
                         ELSE files \cup {[name |-> entry.filename,
                                           complete |-> o.saved = "complete"]}
             /\ success_count' = IF ok THEN success_count + 1 ELSE success_count
    /\ idx' = idx + 1
    /\ UNCHANGED <<OPENAI_API_KEY, pc>>
    /\ UNCHANGED serviceVars

\* One turn of main's loop (lines 95-98): generate_audio_file (lines 33-74)
\* for the next entry, and the count of its True results.
generate_audio_file(entry) ==
    /\ pc = "loop"
    /\ idx < Len(CRITICAL_PHRASES)
    /\ entry = CRITICAL_PHRASES[idx + 1]
    /\ \E o \in PostOutcomes :
          LET call == [filename |-> entry.filename, input |-> entry.text,
                       voice |-> "nova", status |-> o.status,
                       raised |-> o.raised]
              ok == o.status = 200 /\ o.saved = "complete"
          IN /\ posted' = Append(posted, call)
             /\ files' = IF o.saved = "no" THEN files
                         ELSE files \cup {[name |-> entry.filename,
                                           complete |-> o.saved = "complete"]}
             /\ success_count' = IF ok THEN success_count + 1 ELSE success_count
    /\ idx' = idx + 1
    /\ UNCHANGED <<OPENAI_API_KEY, pc>>
    /\ UNCHANGED serviceVars

\* The end of main's loop and its report (lines 100-110)
report ==
    /\ pc = "loop"
    /\ idx = Len(CRITICAL_PHRASES)
    /\ pc' = IF success_count = Len(CRITICAL_PHRASES)
             THEN "done_all" ELSE "done_some_failed"
    /\ UNCHANGED <<OPENAI_API_KEY, idx, success_count, posted, files>>
    /\ UNCHANGED serviceVars

\* The script as launched: the key is whatever the environment gives.
InitAudio ==
    /\ net = None
    /\ classes_from = None
    /\ table_writes = <<>>
    /\ started = FALSE
    /\ clock = 0
    /\ handled = 0
    /\ reply = NoReply
    /\ OPENAI_API_KEY \in Keys
    /\ pc = "main"
    /\ idx = 0
    /\ success_count = 0
    /\ posted = <<>>
    /\ files = {}

NextAudio ==
    \/ main
    \/ \E i \in 1..Len(CRITICAL_PHRASES) : generate_audio_file(CRITICAL_PHRASES[i])
    \/ report

SpecAudio == InitAudio /\ [][NextAudio]_vars

----------------------------------------------------------------------------
(* Properties *)

\* The last reply answers a POST /upload_image.
IsUploadReply == reply.kind \in {"DetectionResponse", "error_envelope"}

IsDetectionResponse == reply.kind = "DetectionResponse"

\* RFC 4648 base64: digits only, in quads, with at most two pads, at the end.
StrictBase64(s) ==
    /\ Len(s) % 4 = 0
    /\ \A i \in 1..Len(s) :
          \/ s[i] \in Digits
          \/ s[i] = "=" /\ i >= Len(s) - 1 /\ \A j \in i..Len(s) : s[j] = "="

\* A malformed image input: its payload is not valid base64, or is empty, or
\* is base64 of bytes that are no image.
Malformed(image_base64) ==
    LET p == Payload(image_base64) IN
    \/ ~StrictBase64(p)
    \/ p = <<>>
    \/ imdecode(b64decode(p).bytes) = None

\* C1: every malformed image input to POST /upload_image ends in a 4xx
\* {error, status_code, timestamp} envelope whose error mentions invalid
\* image data, never in a 5xx and never in a 200 DetectionResponse.
C1_MalformedIsClientError ==
    (IsUploadReply /\ Malformed(reply.request.image)) =>
        /\ reply.kind = "error_envelope"
        /\ DOMAIN reply.body = {"error", "status_code", "timestamp"}
        /\ reply.body.status_code \in 400..499
        /\ reply.body.error[1] = "Invalid image data: "

\* C2 as stated: every response to a request, on the success path and on
\* every failure path, carries the request's frame_id.
C2_EveryResponseEchoesFrameId ==
    IsUploadReply =>
        /\ "frame_id" \in DOMAIN reply.body
        /\ reply.body.frame_id = reply.request.frame_id

\* C2 amended: every DetectionResponse that process_image returns (success
\* path and embedded-error path) has the request's frame_id; a decode
\* failure returns no DetectionResponse, and its error envelope has no
\* frame_id field.
C2_DetectionResponseEchoesFrameId ==
    /\ IsDetectionResponse => reply.body.frame_id = reply.request.frame_id
    /\ reply.kind = "error_envelope" => "frame_id" \notin DOMAIN reply.body

\* An embedded-error response that echoes frame_id 42.
C2_Witness ==
    /\ IsDetectionResponse
    /\ reply.exception # None
    /\ reply.request.frame_id = 42
    /\ reply.body.frame_id = 42

\* The Detection objects of the candidate pool.
Pool == {Detection(simulated_detections[i]) : i \in 1..Len(simulated_detections)}

\* C3: the simulated detect returns 1 to 3 pairwise distinct members of the
\* 4-candidate pool, all with class ids in the label table; so a decodable
\* image with no model configured gets status "success" and a non-null
\* detections list of length 1 to 3.
C3_SimulatedDetections ==
    (IsUploadReply /\ net = None /\ ~decode_base64_image(reply.request.image).raised) =>
        /\ IsDetectionResponse
        /\ reply.strategy = "simulated"
        /\ reply.body.status = <<"success">>
        /\ reply.body.detections # None
        /\ LET d == reply.body.detections[1] IN
           /\ Len(d) \in 1..3
           /\ \A i \in 1..Len(d) : d[i] \in Pool
           /\ \A i \in 1..Len(d) : d[i].class_id \in {56, 58, 62, 39}
           /\ \A i \in 1..Len(d) : d[i].class_id \in DOMAIN COCO_CLASSES
           /\ \A i, j \in 1..Len(d) : i # j => d[i] # d[j]

\* A simulated response with three detections.
C3_Witness ==
    /\ IsDetectionResponse
    /\ reply.strategy = "simulated"
    /\ reply.body.detections # None
    /\ Len(reply.body.detections[1]) = 3

\* The payload after the last comma (the whole string when there is none).
AfterLastComma(s) == split(s)[Len(split(s))]

\* C4: the text that is base64-decoded is the payload after the last comma,
\* or the whole string when it has no comma.
C4_DecodesAfterLastComma ==
    IsUploadReply => reply.b64_input = AfterLastComma(reply.request.image)

\* C5: an exception raised after a successful decode, during detection or
\* mapping, is caught: the request ends in a 200 DetectionResponse with
\* detections null, status "error: " and the exception text, and the
\* elapsed time measured; it never reaches the 500 envelope.
C5_ExceptionIsEmbedded ==
    /\ reply.kind = "error_envelope" =>
          /\ reply.handler = "http_exception_handler"
          /\ reply.body.status_code # 500
          /\ decode_base64_image(reply.request.image).raised
    /\ (IsDetectionResponse /\ reply.exception # None) =>
          /\ reply.status_code = 200
          /\ reply.body.detections = None
          /\ reply.body.status = <<"error: ", reply.exception[1]>>
          /\ reply.body.processing_time = reply.now - reply.start_time
          /\ reply.body.frame_id = reply.request.frame_id

\* A mapping exception has been embedded in a response.
C5_Witness ==
    /\ IsDetectionResponse
    /\ reply.exception = Some("validation error for Detection")
    /\ reply.body.detections = None

\* C6: under the model strategy an error inside inference gives an empty
\* sequence, and the request completes with status "success" and an empty,
\* non-null detections list.
C6_InferenceErrorIsEmpty ==
    (IsUploadReply /\ reply.kind # "error_envelope" /\ reply.inference_error) =>
        /\ reply.strategy = "model"
        /\ reply.exception = None
        /\ reply.body.status = <<"success">>
        /\ reply.body.detections = Some(<<>>)

\* A request under the model strategy whose inference failed.
C6_Witness ==
    /\ IsDetectionResponse
    /\ net # None
    /\ reply.strategy = "model"
    /\ reply.inference_error

\* C7: after startup no handler writes the model handle, the class list or
\* the label table, and GET /classes always returns the same 80 entries
\* (keys 0 to 79) with total_classes = 80.
C7_GlobalsReadOnly ==
    /\ [][started => /\ net' = net
                     /\ classes_from' = classes_from
                     /\ table_writes' = table_writes]_vars
    /\ [](started => /\ COCO_CLASSES = CocoTable
                     /\ classes = Some(COCO_NAMES))
    /\ [](reply.kind = "classes" =>
             /\ reply.body.classes = CocoTable
             /\ DOMAIN reply.body.classes = 0..79
             /\ reply.body.total_classes = 80)

\* GET /classes answered after two upload requests were handled.
C7_Witness ==
    /\ handled = 2
    /\ reply.kind = "classes"
    /\ reply.body.total_classes = 80

\* C8: every DetectionResponse has processing_time >= 0.
C8_ProcessingTimeNonNegative ==
    IsDetectionResponse => reply.body.processing_time >= 0

\* The calls so far that returned 200 and whose file was written.
Succeeded ==
    {i \in 1..Len(posted) :
        /\ posted[i].status = 200
        /\ [name |-> posted[i].filename, complete |-> TRUE] \in files}

\* C9: with the placeholder key main issues no request and writes no file;
\* otherwise one TTS request per entry of CRITICAL_PHRASES, in table order,
\* never repeated, a failure not stopping the later ones, and success_count
\* counts the entries with status 200 and a written file.
C9_AudioLoop ==
    /\ OPENAI_API_KEY = Placeholder => (posted = <<>> /\ files = {} /\ pc # "loop")
    /\ Len(posted) = idx
    /\ \A i \in 1..Len(posted) :
          /\ posted[i].filename = CRITICAL_PHRASES[i].filename
          /\ posted[i].input = CRITICAL_PHRASES[i].text
    /\ success_count = Cardinality(Succeeded)
    /\ 0 <= success_count /\ success_count <= Len(CRITICAL_PHRASES)
    /\ pc \in {"done_all", "done_some_failed"} =>
          /\ Len(posted) = Len(CRITICAL_PHRASES)
          /\ (pc = "done_all") = (success_count = Len(CRITICAL_PHRASES))

\* A run whose first request failed and whose last one succeeded.
C9_Witness ==
    /\ pc = "done_some_failed"
    /\ Len(posted) = 3
    /\ posted[1].raised
    /\ posted[2].status = 401
    /\ posted[3].status = 200
    /\ success_count = 1

\* C10: the model handle is absent in every reachable state, GET /health
\* and GET /stats report model_loaded false, and every detection request
\* takes the simulated strategy.
C10_ModelNeverLoaded ==
    /\ net = None
    /\ reply.kind \in {"health", "stats"} => reply.body.model_loaded = FALSE
    /\ IsDetectionResponse => reply.strategy = "simulated"

\* GET /health answered after startup and an upload.
C10_Witness ==
    /\ started
    /\ handled >= 1
    /\ reply.kind = "health"
    /\ reply.body.model_loaded = FALSE

====
